---- MODULE Spec2Model ----
(***************************************************************************)
(* The extract -> validate -> correct retry loop of src/agent/graph.py,    *)
(* the schema of src/agent/schemas.py it validates against, the offline    *)
(* replay loop of src/agent/offline_runner.py and the per-case reporting   *)
(* of src/eval/run_agent_suite.py.                                         *)
(*                                                                         *)
(* Strings.  A Python str whose characters matter (a name, a department,   *)
(* a user_id given as text) is a sequence of one-character strings.  A     *)
(* long text whose characters do not matter to the loop (a generator       *)
(* output, a validation error message) is a record                         *)
(*     [body |-> what the text says, len |-> its length in characters,     *)
(*      ws |-> the whitespace around it]                                   *)
(* so that s.strip() and s[:n] are computed and not assumed away: a text   *)
(* cut by s[:n] is the prefix (body, n) and differs from the whole text.   *)
(***************************************************************************)
EXTENDS Integers, Sequences, FiniteSets, TLC

None == [t |-> "None"]

Max(a, b) == IF a >= b THEN a ELSE b
Min(a, b) == IF a <= b THEN a ELSE b

\* the element of a one-element set: {F(x) : x \in {e}} evaluates e once
\* and names its value x, which a LET would evaluate at every use
Only(S) == CHOOSE x \in S : TRUE

(***************************************************************************)
(* JSON values as the parser hands them to the schema.                     *)
(***************************************************************************)
JNull == [t |-> "null"]
JAbsent == [t |-> "absent"]
JInt(n) == [t |-> "int", v |-> n]
\* a finite float, v in tenths: JFloat(95) is 9.5
JFloat(tenths) == [t |-> "float", v |-> tenths]
JInf == [t |-> "inf"]
JNegInf == [t |-> "-inf"]
JNaN == [t |-> "nan"]
JStr(chars) == [t |-> "str", v |-> chars]

Missing(j) == j.t \in {"null", "absent"}

Digits == {"0", "1", "2", "3", "4", "5", "6", "7", "8", "9"}
DigitVal ==
  "0" :> 0 @@ "1" :> 1 @@ "2" :> 2 @@ "3" :> 3 @@ "4" :> 4 @@
  "5" :> 5 @@ "6" :> 6 @@ "7" :> 7 @@ "8" :> 8 @@ "9" :> 9

RECURSIVE DecimalValue(_)
DecimalValue(chars) ==
  IF chars = <<>> THEN 0
  ELSE 10 * DecimalValue(SubSeq(chars, 1, Len(chars) - 1)) + DigitVal[chars[Len(chars)]]

IsDecimal(chars) == Len(chars) > 0 /\ \A i \in 1..Len(chars) : chars[i] \in Digits

(***************************************************************************)
(* Field validators.  Each returns [ok |-> TRUE, v |-> the validated       *)
(* Python value, tagged like a JSON value] or [ok |-> FALSE, why |-> the   *)
(* error type].                                                            *)
(* model_validate_json validates in lax mode: an int field takes a JSON    *)
(* integer, a float with no fractional part, or a string of digits.        *)
(***************************************************************************)
Ok(v) == [ok |-> TRUE, v |-> v]
Err(why) == [ok |-> FALSE, why |-> why]

IntField(j) ==
  CASE j.t = "int" -> Ok(j)
    [] j.t = "float" -> IF j.v % 10 = 0 THEN Ok(JInt(j.v \div 10)) ELSE Err("int_from_float")
    [] j.t = "str" -> IF IsDecimal(j.v) THEN Ok(JInt(DecimalValue(j.v))) ELSE Err("int_parsing")
    [] j.t = "absent" -> Err("missing")
    [] OTHER -> Err("int_type")

\* user_id: int
user_id_field(j) == IntField(j)

\* age: Optional[int] = Field(default=None, ge=16, le=80)
age_ge == 16
age_le == 80
\* age with the bounds excluded (gt and lt for ge and le)
age_field_exclusive(j) ==
  IF Missing(j) THEN Ok(None)
  ELSE LET r == IntField(j) IN
       IF ~r.ok THEN r
       ELSE IF r.v.v <= age_ge THEN Err("greater_than")
       ELSE IF r.v.v >= age_le THEN Err("less_than")
       ELSE r

age_field(j) ==
  IF Missing(j) THEN Ok(None)
  ELSE LET r == IntField(j) IN
       IF ~r.ok THEN r
       ELSE IF r.v.v < age_ge THEN Err("greater_than_equal")
       ELSE IF r.v.v > age_le THEN Err("less_than_equal")
       ELSE r

\* a float field takes a JSON number; the validated value is kept in tenths
FloatField(j) ==
  CASE j.t = "int" -> Ok(JFloat(10 * j.v))
    [] j.t = "float" -> Ok(j)
    [] j.t = "inf" -> Ok(j)
    [] j.t = "-inf" -> Ok(j)
    [] j.t = "nan" -> Ok(j)
    [] j.t = "str" -> IF IsDecimal(j.v) THEN Ok(JFloat(10 * DecimalValue(j.v)))
                      ELSE Err("float_parsing")
    [] j.t = "absent" -> Err("missing")
    [] OTHER -> Err("float_type")

\* x >= bound for a validated float; every comparison with NaN is false
FloatGe(x, tenths) == x.t = "inf" \/ (x.t = "float" /\ x.v >= tenths)
FloatLe(x, tenths) == x.t = "-inf" \/ (x.t = "float" /\ x.v <= tenths)

\* salary: Optional[float] = Field(default=None, ge=0)
salary_field(j) ==
  IF Missing(j) THEN Ok(None)
  ELSE LET r == FloatField(j) IN
       IF ~r.ok THEN r
       ELSE IF ~FloatGe(r.v, 0) THEN Err("greater_than_equal")
       ELSE r

\* performance_score: Optional[float] = Field(default=None, ge=0, le=10)
performance_score_field(j) ==
  IF Missing(j) THEN Ok(None)
  ELSE LET r == FloatField(j) IN
       IF ~r.ok THEN r
       ELSE IF ~FloatGe(r.v, 0) THEN Err("greater_than_equal")
       ELSE IF ~FloatLe(r.v, 100) THEN Err("less_than_equal")
       ELSE r

\* email, location, job_title: Optional[str] = None
optional_str_field(j) ==
  IF Missing(j) THEN Ok(None)
  ELSE IF j.t = "str" THEN Ok(j)
  ELSE Err("string_type")

(***************************************************************************)
(* Characters of the strings whose content the schema reads.               *)
(***************************************************************************)
LowerCase == <<"a", "c", "e", "h", "i", "l", "m", "n">>
UpperCase == <<"A", "C", "E", "H", "I", "L", "M", "N">>
Whitespace == {" ", "\t", "\n"}

IndexIn(c, letters) == CHOOSE i \in 1..Len(letters) : letters[i] = c
IsLower(c) == \E i \in 1..Len(LowerCase) : LowerCase[i] = c
IsUpper(c) == \E i \in 1..Len(UpperCase) : UpperCase[i] = c
IsCased(c) == IsLower(c) \/ IsUpper(c)
ToUpper(c) == IF IsLower(c) THEN UpperCase[IndexIn(c, LowerCase)] ELSE c
ToLower(c) == IF IsUpper(c) THEN LowerCase[IndexIn(c, UpperCase)] ELSE c

\* str.strip()
RECURSIVE LStrip(_)
LStrip(s) == IF s # <<>> /\ Head(s) \in Whitespace THEN LStrip(Tail(s)) ELSE s
RECURSIVE RStrip(_)
RStrip(s) ==
  IF s # <<>> /\ s[Len(s)] \in Whitespace THEN RStrip(SubSeq(s, 1, Len(s) - 1)) ELSE s
StripChars(s) == RStrip(LStrip(s))

\* str.split(): the maximal runs of non-whitespace characters, in order
RECURSIVE SplitFrom(_, _, _)
SplitFrom(s, word, words) ==
  IF s = <<>> THEN (IF word = <<>> THEN words ELSE Append(words, word))
  ELSE IF Head(s) \in Whitespace
       THEN SplitFrom(Tail(s), <<>>, IF word = <<>> THEN words ELSE Append(words, word))
       ELSE SplitFrom(Tail(s), Append(word, Head(s)), words)
Split(s) == SplitFrom(s, <<>>, <<>>)

\* " ".join(words)
RECURSIVE JoinSpace(_)
JoinSpace(words) ==
  IF words = <<>> THEN <<>>
  ELSE IF Len(words) = 1 THEN words[1]
  ELSE words[1] \o <<" ">> \o JoinSpace(Tail(words))

\* str.title(): a cased character is upper-cased after an uncased one (or at
\* the start) and lower-cased after a cased one
RECURSIVE TitleFrom(_, _)
TitleFrom(s, prevCased) ==
  IF s = <<>> THEN <<>>
  ELSE LET c == Head(s) IN
       IF IsCased(c)
       THEN <<(IF prevCased THEN ToLower(c) ELSE ToUpper(c))>> \o TitleFrom(Tail(s), TRUE)
       ELSE <<c>> \o TitleFrom(Tail(s), FALSE)
Title(s) == TitleFrom(s, FALSE)

\* normalize_name without the split and join: v.strip().title()
normalize_name_no_collapse(v) == Title(StripChars(v))

\* Employee.normalize_name
normalize_name(v) == Title(JoinSpace(Split(StripChars(v))))

\* name: str = Field(min_length=1); the field validator runs after the
\* type and length checks of the field
name_min_length == 1
name_field(j) ==
  IF j.t = "absent" THEN Err("missing")
  ELSE IF j.t # "str" THEN Err("string_type")
  ELSE IF Len(j.v) < name_min_length THEN Err("string_too_short")
  ELSE Ok(JStr(normalize_name(j.v)))

\* Department = Literal[...]
Department ==
  { <<"A", "r", "t", "i", "f", "i", "c", "i", "a", "l", " ", "I", "n", "t", "e", "l", "l", "i", "g", "e", "n", "c", "e">>,
    <<"A", "I", "/", "M", "L">>,
    <<"M", "a", "c", "h", "i", "n", "e", " ", "L", "e", "a", "r", "n", "i", "n", "g">>,
    <<"D", "a", "t", "a", " ", "S", "c", "i", "e", "n", "c", "e">> }

RECURSIVE LowerChars(_)
LowerChars(s) == IF s = <<>> THEN <<>> ELSE <<ToLower(Head(s))>> \o LowerChars(Tail(s))

\* department matched without regard to case
department_field_any_case(j) ==
  IF j.t = "absent" THEN Err("missing")
  ELSE IF j.t = "str" /\ \E d \in Department : LowerChars(d) = LowerChars(j.v) THEN Ok(j)
  ELSE Err("literal_error")

department_field(j) ==
  IF j.t = "absent" THEN Err("missing")
  ELSE IF j.t = "str" /\ j.v \in Department THEN Ok(j)
  ELSE Err("literal_error")

\* join_date: Optional[date]; a JSON string is read as YYYY-MM-DD
IsLeap(y) == (y % 4 = 0 /\ y % 100 # 0) \/ y % 400 = 0
DaysIn(y, m) ==
  IF m = 2 THEN (IF IsLeap(y) THEN 29 ELSE 28)
  ELSE IF m \in {4, 6, 9, 11} THEN 30 ELSE 31
IsIsoDate(s) ==
  /\ Len(s) = 10
  /\ s[5] = "-" /\ s[8] = "-"
  /\ IsDecimal(SubSeq(s, 1, 4)) /\ IsDecimal(SubSeq(s, 6, 7)) /\ IsDecimal(SubSeq(s, 9, 10))
  /\ LET y == DecimalValue(SubSeq(s, 1, 4))
         m == DecimalValue(SubSeq(s, 6, 7))
         d == DecimalValue(SubSeq(s, 9, 10))
     IN y >= 1 /\ m \in 1..12 /\ d \in 1..DaysIn(y, m)
join_date_field(j) ==
  IF Missing(j) THEN Ok(None)
  ELSE IF j.t = "str" /\ IsIsoDate(j.v)
       THEN Ok([t |-> "date", year |-> DecimalValue(SubSeq(j.v, 1, 4)),
                                month |-> DecimalValue(SubSeq(j.v, 6, 7)),
                                day |-> DecimalValue(SubSeq(j.v, 9, 10))])
  ELSE Err("date_from_datetime_parsing")

(***************************************************************************)
(* The models of schemas.py.  A candidate is a JSON object given as a      *)
(* record of JSON values, a key the text leaves out being JAbsent.         *)
(***************************************************************************)
JList(items) == [t |-> "list", v |-> items]
JObject(fields) == [t |-> "object", v |-> fields]

FieldErrors(r) == {<<f, r[f].why>> : f \in {g \in DOMAIN r : ~r[g].ok}}

\* a model from the outcomes r of its fields: the validated values, or
\* every field error
ModelOf(r) ==
  IF \A f \in DOMAIN r : r[f].ok
  THEN [ok |-> TRUE, v |-> [f \in DOMAIN r |-> r[f].v]]
  ELSE [ok |-> FALSE, errors |-> FieldErrors(r)]

EmployeeFields(c) ==
  [user_id |-> user_id_field(c.v.user_id),
   name |-> name_field(c.v.name),
   age |-> age_field(c.v.age),
   email |-> optional_str_field(c.v.email),
   salary |-> salary_field(c.v.salary),
   join_date |-> join_date_field(c.v.join_date),
   department |-> department_field(c.v.department),
   performance_score |-> performance_score_field(c.v.performance_score),
   location |-> optional_str_field(c.v.location),
   job_title |-> optional_str_field(c.v.job_title)]

\* class Employee(BaseModel)
Employee(c) ==
  IF c.t # "object" THEN [ok |-> FALSE, errors |-> {<<"", "model_type">>}]
  ELSE Only({ModelOf(r) : r \in {EmployeeFields(c)}})

\* raw_record: str = Field(min_length=1)
raw_record_min_length == 1
raw_record_field(j) ==
  IF j.t = "absent" THEN Err("missing")
  ELSE IF j.t # "str" THEN Err("string_type")
  ELSE IF Len(j.v) < raw_record_min_length THEN Err("string_too_short")
  ELSE Ok(j)

\* reasons: List[str] = Field(min_length=1): the length is the list's
reasons_min_length == 1
reasons_field(j) ==
  IF j.t = "absent" THEN Err("missing")
  ELSE IF j.t # "list" THEN Err("list_type")
  ELSE IF \E i \in 1..Len(j.v) : j.v[i].t # "str" THEN Err("string_type")
  ELSE IF Len(j.v) < reasons_min_length THEN Err("too_short")
  ELSE Ok(j)

RejectedRecordFields(c) ==
  [raw_record |-> raw_record_field(c.v.raw_record), reasons |-> reasons_field(c.v.reasons)]

\* class RejectedRecord(BaseModel)
RejectedRecord(c) ==
  IF c.t # "object" THEN [ok |-> FALSE, errors |-> {<<"", "model_type">>}]
  ELSE Only({ModelOf(r) : r \in {RejectedRecordFields(c)}})

\* the errors of the items of a list, each under its index
ItemErrors(r) ==
  UNION {{<<i, e[1], e[2]>> : e \in r[i].errors} : i \in {k \in DOMAIN r : ~r[k].ok}}

\* a list that keeps its valid items and drops the others
list_of_valid_items(r) ==
  LET kept == {i \in DOMAIN r : r[i].ok}
      RECURSIVE Pick(_)
      Pick(i) == IF i > Len(r) THEN <<>>
                 ELSE (IF i \in kept THEN <<r[i].v>> ELSE <<>>) \o Pick(i + 1)
  IN [ok |-> TRUE, v |-> Pick(1)]

\* a list from the outcomes r of its items
ListOf(r) ==
  IF \A i \in DOMAIN r : r[i].ok
  THEN [ok |-> TRUE, v |-> [i \in DOMAIN r |-> r[i].v]]
  ELSE [ok |-> FALSE, errors |-> ItemErrors(r)]

\* employees: List[Employee] = Field(default_factory=list)
employees_field(j) ==
  IF j.t = "absent" THEN [ok |-> TRUE, v |-> <<>>]
  ELSE IF j.t # "list" THEN [ok |-> FALSE, errors |-> {<<0, "", "list_type">>}]
  ELSE Only({ListOf(r) : r \in {[i \in 1..Len(j.v) |-> Employee(j.v[i])]}})

\* rejected: List[RejectedRecord] = Field(default_factory=list)
rejected_field(j) ==
  IF j.t = "absent" THEN [ok |-> TRUE, v |-> <<>>]
  ELSE IF j.t # "list" THEN [ok |-> FALSE, errors |-> {<<0, "", "list_type">>}]
  ELSE Only({ListOf(r) : r \in {[i \in 1..Len(j.v) |-> RejectedRecord(j.v[i])]}})

\* the document from the outcomes of its two lists: every error of the
\* document is collected
DocumentOf(emp, rej) ==
  IF emp.ok /\ rej.ok
  THEN [ok |-> TRUE, v |-> [employees |-> emp.v, rejected |-> rej.v]]
  ELSE [ok |-> FALSE,
        errors |->
          (IF emp.ok THEN {} ELSE {<<"employees", e[1], e[2], e[3]>> : e \in emp.errors})
          \cup
          (IF rej.ok THEN {} ELSE {<<"rejected", e[1], e[2], e[3]>> : e \in rej.errors})]

\* class ExtractedData(BaseModel)
ExtractedData(doc) ==
  IF doc.t # "object" THEN [ok |-> FALSE, errors |-> {<<"", 0, "", "model_type">>}]
  ELSE Only({DocumentOf(emp, rej) : emp \in {employees_field(doc.v.employees)},
                                    rej \in {rejected_field(doc.v.rejected)}})

\* data.model_dump(): the model and its sub-models become dicts and lists
DumpModel(m) == [t |-> "dict", v |-> m]
model_dump(data) ==
  [t |-> "dict",
   v |-> [employees |->
            [t |-> "list",
             v |-> [i \in 1..Len(data.employees) |-> DumpModel(data.employees[i])]],
          rejected |->
            [t |-> "list",
             v |-> [i \in 1..Len(data.rejected) |->
                      DumpModel([raw_record |-> data.rejected[i].raw_record,
                                 reasons |-> [t |-> "list",
                                              v |-> data.rejected[i].reasons.v]])]]]]

\* _json_safe that tests math.isnan only
RECURSIVE json_safe_nan_only(_)
json_safe_nan_only(obj) ==
  CASE obj.t = "None" -> None
    [] obj.t \in {"float", "inf", "-inf", "nan"} -> IF obj.t = "nan" THEN None ELSE obj
    [] obj.t = "dict" ->
         [t |-> "dict", v |-> [k \in DOMAIN obj.v |-> json_safe_nan_only(obj.v[k])]]
    [] obj.t = "list" ->
         [t |-> "list", v |-> [i \in 1..Len(obj.v) |-> json_safe_nan_only(obj.v[i])]]
    [] OTHER -> obj

\* _json_safe(obj)
RECURSIVE _json_safe(_)
_json_safe(obj) ==
  CASE obj.t = "None" -> None
    [] obj.t \in {"float", "inf", "-inf", "nan"} ->
         IF obj.t = "nan" \/ obj.t \in {"inf", "-inf"} THEN None ELSE obj
    [] obj.t = "dict" -> [t |-> "dict", v |-> [k \in DOMAIN obj.v |-> _json_safe(obj.v[k])]]
    [] obj.t = "list" -> [t |-> "list", v |-> [i \in 1..Len(obj.v) |-> _json_safe(obj.v[i])]]
    [] OTHER -> obj

(***************************************************************************)
(* The texts the generator can answer with.  A text is named by its body;  *)
(* JsonDocs gives the JSON document a whole text parses to, and a body     *)
(* outside its domain, or a text that was cut, is not JSON.                *)
(***************************************************************************)
EmployeeObject(user_id, name, age, salary, department) ==
  JObject([user_id |-> user_id, name |-> name, age |-> age, email |-> JNull,
           salary |-> salary, join_date |-> JNull, department |-> department,
           performance_score |-> JNull, location |-> JNull, job_title |-> JNull])

MichaelChen == JStr(<<"M", "i", "c", "h", "a", "e", "l", " ", "C", "h", "e", "n">>)
good_employee ==
  EmployeeObject(JInt(101), MichaelChen, JInt(29), JInt(120000), JStr(<<"A", "r", "t", "i", "f", "i", "c", "i", "a", "l", " ", "I", "n", "t", "e", "l", "l", "i", "g", "e", "n", "c", "e">>))
\* the record of test_offline_runner.py: wrong-typed id, empty name, "ai"
bad_employee ==
  JObject([user_id |-> JStr(<<"1", "0", "1">>), name |-> JStr(<<>>), age |-> JAbsent,
           email |-> JAbsent, salary |-> JAbsent, join_date |-> JAbsent,
           department |-> JStr(<<"a", "i">>), performance_score |-> JAbsent,
           location |-> JAbsent, job_title |-> JAbsent])
\* "101", the user_id of the test's bad record
Chars101 == <<"1", "0", "1">>
\* a record that gives its user_id as text and is otherwise the good one
string_id_employee ==
  EmployeeObject(JStr(Chars101), MichaelChen, JInt(29), JInt(120000), JStr(<<"A", "I", "/", "M", "L">>))
no_id_rejected ==
  JObject([raw_record |-> JStr(<<"c", "h", "e", "n">>),
           reasons |-> JList(<<JStr(<<"n", "o", " ", "i", "d">>)>>)])

JsonDocs ==
  [good |-> JObject([employees |-> JList(<<good_employee>>), rejected |-> JAbsent]),
   empty_rejected |-> JObject([employees |-> JList(<<>>),
                               rejected |-> JList(<<no_id_rejected>>)]),
   empty_object |-> JObject([employees |-> JAbsent, rejected |-> JAbsent]),
   bad |-> JObject([employees |-> JList(<<bad_employee>>), rejected |-> JAbsent]),
   string_id |-> JObject([employees |-> JList(<<string_id_employee>>), rejected |-> JAbsent]),
   long_good |-> JObject([employees |->
                            JList(<<good_employee,
                                    EmployeeObject(JFloat(1020), JStr(<<" ", "l", "i", " ">>),
                                                   JNull, JInf, JStr(<<"A", "I", "/", "M", "L">>))>>),
                          rejected |-> JList(<<no_id_rejected>>)]),
   long_bad |-> JObject([employees |->
                           JList(<<good_employee,
                                   EmployeeObject(JNull, MichaelChen, JInt(15), JNull,
                                                  JStr(<<"A", "I", "/", "M", "L">>))>>),
                         rejected |-> JList(<<>>)])]

TextBodies == DOMAIN JsonDocs \cup {"not_json"}

\* the length in characters of each whole text
FullLen ==
  [b \in TextBodies |->
     CASE b = "good" -> 230
       [] b = "empty_rejected" -> 75
       [] b = "empty_object" -> 2
       [] b = "bad" -> 70
       [] b = "string_id" -> 232
       [] b = "long_good" -> 2600
       [] b = "long_bad" -> 2500
       [] b = "not_json" -> 40]

Text(b) == [body |-> b, len |-> FullLen[b], ws |-> 0]
EmptyStr == [body |-> "", len |-> 0, ws |-> 0]

\* s.strip()
Strip(s) == [s EXCEPT !.ws = 0]
\* s[:n] of a stripped string
Slice(s, n) ==
  IF s.len <= n THEN s
  ELSE IF n = 0 THEN [s EXCEPT !.body = EmptyStr.body, !.len = 0]
  ELSE [s EXCEPT !.len = n]
IsEmpty(s) == s.len = 0 /\ s.ws = 0

\* json.loads of the text inside model_validate_json
IsJson(s) == s.body \in DOMAIN JsonDocs /\ s.len = FullLen[s.body]

\* the schema applied to each document of JsonDocs, computed once
Validated == [b \in DOMAIN JsonDocs |-> ExtractedData(JsonDocs[b])]

\* ExtractedData.model_validate_json(text): the validated model, or the
\* errors of the ValidationError it raises
model_validate_json(s) ==
  IF IsJson(s) THEN Validated[s.body]
  ELSE [ok |-> FALSE, errors |-> {<<"", 0, "", "json_invalid">>}]

\* what resp.output_text can be: None, or a text with or without
\* whitespace around it (the empty and the all-blank text among them)
OutputTexts ==
  {None, [EmptyStr EXCEPT !.ws = 1], [Text("good") EXCEPT !.ws = 1]}
  \cup {Text(b) : b \in TextBodies}

\* (resp.output_text or "").strip()
StrippedOutput(output_text) ==
  IF output_text = None \/ (output_text.len = 0 /\ output_text.ws = 0) THEN EmptyStr
  ELSE Strip(output_text)

\* str(e) of a ValidationError: its text lists the errors; its length is
\* pydantic's to decide and is at least one line
ErrorLengths == {160, 2400}
ErrorText(errors, n) == [body |-> errors, len |-> n, ws |-> 0]
NoError == [body |-> {}, len |-> 0, ws |-> 0]

(***************************************************************************)
(* run_agent: the graph of build_graph over one AgentState.                *)
(***************************************************************************)
VARIABLES
  raw_text,          \* AgentState["raw_text"]
  attempt,           \* AgentState["attempt"]
  max_attempts,      \* AgentState["max_attempts"]
  last_json_text,    \* AgentState["last_json_text"]
  validation_error,  \* AgentState["validation_error"]
  result,            \* AgentState["result"]
  log,               \* AgentState["log"]
  pc,                \* the node the graph runs next; "END" and "raised" end the run
  calls,             \* the calls the generator has received, with what it answered
  report,            \* what run_agent_suite.main prints for the case
  offline,           \* the locals of run_offline_agent and what it returned
  validator,         \* a document given to the schema on its own, and the outcome
  normalizer,        \* an object given to _json_safe on its own, and what it returns
  query              \* a call of execute_query: the frame, the plan and the outcome

vars ==
  <<raw_text, attempt, max_attempts, last_json_text, validation_error, result, log, pc,
    calls, report, offline, validator, normalizer, query>>

\* the largest max_attempts a run is started with
MaxBudget == 3
Budgets == (0 - 1)..MaxBudget
RawTexts == {"raw_a", "raw_b"}

\* out[:2000] and state["validation_error"][:2000]
output_limit == 2000
error_limit == 2000

Raised == [t |-> "raised"]

\* _should_retry with the budget test off by one (> for >=)
should_retry_off_by_one(res, att, budget) ==
  IF res # None THEN "finalize"
  ELSE IF att > budget THEN "finalize"
  ELSE "retry"

\* _should_retry with the result test left out
should_retry_budget_only(res, att, budget) ==
  IF att >= budget THEN "finalize" ELSE "retry"

\* def _should_retry(state)
_should_retry(res, att, budget) ==
  IF res # None THEN "finalize"
  ELSE IF att >= budget THEN "finalize"
  ELSE "retry"

\* add_conditional_edges("validate", _should_retry, {"retry": "correct", "finalize": END})
AfterValidate(route) == IF route = "retry" THEN "correct" ELSE "END"

\* inc_attempt that leaves the counter alone
inc_attempt_forgotten(att) == att

\* inc_attempt adding 2
inc_attempt_twice(att) == att + 2

\* inc_attempt: state["attempt"] += 1
inc_attempt(att) == att + 1

\* state["log"].insert(0, entry) in place of append
log_insert_first(entries, e) == <<e>> \o entries

\* state["log"].append(entry)
log_append(entries, e) == Append(entries, e)

\* a validate-pass entry that carries the status of the other branch
pass_entry_marked_fail(att) == [step |-> "validate", attempt |-> att, status |-> "fail"]

\* a validate-fail entry built before validation_error is assigned
fail_entry_stale_error(att, error) ==
  [step |-> "validate", attempt |-> att, status |-> "fail", error |-> NoError]

\* the log entries of the three nodes
ExtractEntry(att, out) == [step |-> "extract", attempt |-> att, output |-> Slice(out, output_limit)]
\* a correct entry logged after the counter was incremented
correct_entry_after_increment(att, out) ==
  [step |-> "correct", attempt |-> att + 1, output |-> Slice(out, output_limit)]

CorrectEntry(att, out) == [step |-> "correct", attempt |-> att, output |-> Slice(out, output_limit)]
PassEntry(att) == [step |-> "validate", attempt |-> att, status |-> "pass"]
FailEntry(att, error) ==
  [step |-> "validate", attempt |-> att, status |-> "fail", error |-> Slice(error, error_limit)]

\* run_offline_agent's candidate_json_outputs: at most MaxCandidates texts
MaxCandidates == 3
CandidateTexts == {Text("good"), Text("empty_rejected"), Text("bad"), Text("not_json")}
CandidateLists == UNION {[1..n -> CandidateTexts] : n \in 0..MaxCandidates}

\* seq[:n - 1], a slice that stops one short
slice_one_short(seq, n) ==
  IF n - 1 >= 0 THEN SubSeq(seq, 1, Min(n - 1, Len(seq)))
  ELSE SubSeq(seq, 1, Max(0, Len(seq) + n - 1))

\* seq[:n]
PySlice(seq, n) ==
  IF n >= 0 THEN SubSeq(seq, 1, Min(n, Len(seq)))
  ELSE SubSeq(seq, 1, Max(0, Len(seq) + n))

\* run_offline_agent before its loop: log = [], last = "", attempt = 1
OfflineStart(candidates, budget) ==
  [pc |-> "loop", candidates |-> candidates, max_attempts |-> budget,
   todo |-> PySlice(candidates, budget), log |-> <<>>, last |-> EmptyStr, attempt |-> 1,
   returned |-> None]
OfflineIdle == [pc |-> "idle"]

ValidatorIdle == [pc |-> "idle"]
NormalizerIdle == [pc |-> "idle"]
QueryIdle == [pc |-> "idle"]
\* the harnesses of the pure functions are not in use
NoCalls == validator = ValidatorIdle /\ normalizer = NormalizerIdle /\ query = QueryIdle

\* the init state of run_agent
AgentStart ==
  /\ raw_text \in RawTexts
  /\ max_attempts \in Budgets
  /\ attempt = 1
  /\ last_json_text = EmptyStr
  /\ validation_error = NoError
  /\ result = None
  /\ log = <<>>
  /\ pc = "extract"
  /\ calls = <<>>
  /\ report = None

AgentIdle ==
  /\ raw_text \in RawTexts
  /\ max_attempts = 1
  /\ attempt = 1
  /\ last_json_text = EmptyStr
  /\ validation_error = NoError
  /\ result = None
  /\ log = <<>>
  /\ pc = "idle"
  /\ calls = <<>>
  /\ report = None

\* one call of run_agent, or one call of run_offline_agent
Init ==
  \/ AgentStart /\ offline = OfflineIdle /\ NoCalls
  \/ /\ AgentIdle
     /\ \E c \in CandidateLists, b \in Budgets : offline = OfflineStart(c, b)
     /\ NoCalls

\* _llm_extract, the call returning
Extract ==
  /\ pc = "extract"
  /\ \E output_text \in OutputTexts :
       LET out == StrippedOutput(output_text) IN
       /\ calls' = Append(calls, [node |-> "extract", payload |-> [raw_text |-> raw_text],
                                  output |-> output_text])
       /\ last_json_text' = out
       /\ log' = log_append(log, ExtractEntry(attempt, out))
  /\ pc' = "validate"
  /\ UNCHANGED <<raw_text, attempt, max_attempts, validation_error, result, report, offline,
                 validator,
                 normalizer, query>>

\* _llm_extract, client.responses.create raising: the exception leaves
\* graph.invoke and run_agent
ExtractRaises ==
  /\ pc = "extract"
  /\ calls' = Append(calls, [node |-> "extract", payload |-> [raw_text |-> raw_text],
                             output |-> Raised])
  /\ pc' = "raised"
  /\ UNCHANGED <<raw_text, attempt, max_attempts, last_json_text, validation_error, result,
                 log, report, offline,
                 validator,
                 normalizer, query>>

\* state["result"] after _validate: _json_safe(data.model_dump()), or None
validated_result(data) ==
  IF data.ok THEN Only({_json_safe(dump) : dump \in {model_dump(data.v)}}) ELSE None

\* a pass branch that leaves the error of the validation before it
validation_error_not_cleared(data, n) ==
  IF data.ok THEN validation_error ELSE ErrorText(data.errors, n)

\* state["validation_error"] after _validate: "" or str(e), of length n
validation_error_after(data, n) ==
  IF data.ok THEN NoError ELSE ErrorText(data.errors, n)

\* _validate, then the conditional edge
Validate ==
  /\ pc = "validate"
  /\ \E n \in ErrorLengths :
     \E data \in {model_validate_json(last_json_text)} :
     \E new_result \in {validated_result(data)} :
       LET new_error == validation_error_after(data, n)
           entry == IF data.ok THEN PassEntry(attempt) ELSE FailEntry(attempt, new_error)
       IN /\ result' = new_result
          /\ validation_error' = new_error
          /\ log' = log_append(log, entry)
          /\ pc' = AfterValidate(_should_retry(new_result, attempt, max_attempts))
  /\ UNCHANGED <<raw_text, attempt, max_attempts, last_json_text, calls, report, offline,
                 validator,
                 normalizer, query>>

\* a payload that carries the error as the log keeps it, cut to error_limit
correct_payload_logged_error(previous_json, error) ==
  [previous_json |-> previous_json, validation_error |-> Slice(error, error_limit)]

\* payload = {"previous_json": ..., "validation_error": ...} of _llm_correct
correct_payload(previous_json, error) ==
  [previous_json |-> previous_json, validation_error |-> error]

\* _llm_correct, the call returning
Correct ==
  /\ pc = "correct"
  /\ \E output_text \in OutputTexts :
       LET out == StrippedOutput(output_text) IN
       /\ calls' = Append(calls, [node |-> "correct",
                                  payload |-> correct_payload(last_json_text, validation_error),
                                  output |-> output_text])
       /\ last_json_text' = out
       /\ log' = log_append(log, CorrectEntry(attempt, out))
  /\ pc' = "inc_attempt"
  /\ UNCHANGED <<raw_text, attempt, max_attempts, validation_error, result, report, offline,
                 validator,
                 normalizer, query>>

\* _llm_correct, client.responses.create raising
CorrectRaises ==
  /\ pc = "correct"
  /\ calls' = Append(calls, [node |-> "correct",
                             payload |-> correct_payload(last_json_text, validation_error),
                             output |-> Raised])
  /\ pc' = "raised"
  /\ UNCHANGED <<raw_text, attempt, max_attempts, last_json_text, validation_error, result,
                 log, report, offline,
                 validator,
                 normalizer, query>>

\* an inc_attempt node that also counts the budget down
IncAttempt_spends_budget ==
  /\ pc = "inc_attempt"
  /\ attempt' = inc_attempt(attempt)
  /\ max_attempts' = max_attempts - 1
  /\ pc' = "validate"
  /\ UNCHANGED <<raw_text, last_json_text, validation_error, result, log,
                 calls, report, offline, validator, normalizer, query>>

\* the inc_attempt node between correct and validate
IncAttempt ==
  /\ pc = "inc_attempt"
  /\ attempt' = inc_attempt(attempt)
  /\ pc' = "validate"
  /\ UNCHANGED <<raw_text, max_attempts, last_json_text, validation_error, result, log,
                 calls, report, offline,
                 validator,
                 normalizer, query>>

(***************************************************************************)
(* run_agent_suite.main, for one case: the try around run_agent and the    *)
(* line it prints.                                                         *)
(***************************************************************************)
\* `if result:` -- a dict is true when it has a key
Truthy(res) == res # None /\ DOMAIN res.v # {}

\* passed = bool(result and result["employees"])
passed_needs_employees(res) == res # None /\ Len(res.v.employees.v) > 0

\* passed = result is not None
passed(res) == res # None

RECURSIVE MaxAttemptIn(_)
MaxAttemptIn(entries) ==
  IF entries = <<>> THEN 0
  ELSE Max(Head(entries).attempt, MaxAttemptIn(Tail(entries)))

\* the printed verdict of a run that returned its final state
CaseLine(res, entries) ==
  [verdict |-> IF passed(res) THEN "PASS" ELSE "FAIL",
   attempts |-> MaxAttemptIn(entries),
   employees |-> IF Truthy(res) THEN Len(res.v.employees.v) ELSE 0,
   rejected |-> IF Truthy(res) THEN Len(res.v.rejected.v) ELSE 0]

\* an except branch that reports the crash as a run with no result
crash_reported_as_fail ==
  [verdict |-> "FAIL", attempts |-> 0, employees |-> 0, rejected |-> 0]

\* except Exception as e: print("[ERROR] agent crashed ..."); continue
CrashLine == [verdict |-> "ERROR"]

SuiteReport ==
  /\ pc \in {"END", "raised"}
  /\ report = None
  /\ report' = IF pc = "raised" THEN CrashLine ELSE CaseLine(result, log)
  /\ UNCHANGED <<raw_text, attempt, max_attempts, last_json_text, validation_error, result,
                 log, pc, calls, offline,
                 validator,
                 normalizer, query>>

(***************************************************************************)
(* run_offline_agent: the loop over candidate_json_outputs[:max_attempts]. *)
(***************************************************************************)
\* one pass of the loop body
OfflineLoopBody ==
  /\ offline.pc = "loop"
  /\ offline.todo # <<>>
  /\ \E data \in {model_validate_json(Head(offline.todo))} :
     LET out == Head(offline.todo)
         logged == Append(offline.log,
                          [step |-> "extract", attempt |-> offline.attempt, output |-> out])
     IN IF data.ok
        THEN LET passedLog == Append(logged, [step |-> "validate",
                                              attempt |-> offline.attempt,
                                              status |-> "pass"])
             IN offline' =
                  [offline EXCEPT
                     !.pc = "returned", !.last = out, !.log = passedLog,
                     !.returned = [result |-> model_dump(data.v), log |-> passedLog,
                                   last_json_text |-> out]]
        ELSE \E n \in ErrorLengths :
               offline' =
                 [offline EXCEPT
                    !.last = out,
                    !.todo = Tail(@),
                    !.log = Append(logged, [step |-> "validate", attempt |-> offline.attempt,
                                            status |-> "fail",
                                            error |-> ErrorText(data.errors, n)]),
                    !.attempt = @ + 1]

\* a loop body that appends its entries to a log the two runners share
OfflineStep_module_log ==
  /\ OfflineLoopBody
  /\ log' = log \o SubSeq(offline'.log, Len(offline.log) + 1, Len(offline'.log))
  /\ UNCHANGED <<raw_text, attempt, max_attempts, last_json_text, validation_error, result,
                 pc, calls, report, validator,
                 normalizer, query>>

\* one pass of the loop: its names are locals of this call of the function
OfflineStep ==
  /\ OfflineLoopBody
  /\ UNCHANGED <<raw_text, attempt, max_attempts, last_json_text, validation_error, result,
                 log, pc, calls, report, validator,
                 normalizer, query>>

\* the return after the loop
OfflineExhausted ==
  /\ offline.pc = "loop"
  /\ offline.todo = <<>>
  /\ offline' = [offline EXCEPT
                   !.pc = "returned",
                   !.returned = [result |-> None, log |-> offline.log,
                                 last_json_text |-> offline.last]]
  /\ UNCHANGED <<raw_text, attempt, max_attempts, last_json_text, validation_error, result,
                 log, pc, calls, report,
                 validator,
                 normalizer, query>>

(***************************************************************************)
(* The schema on its own: ExtractedData.model_validate_json applied to one *)
(* document, and what _validate makes of the outcome.  The documents are   *)
(* lists of a few candidates each, and every single candidate of           *)
(* EmployeeCandidates and RejectedCandidates alone.                        *)
(***************************************************************************)
IdValues ==
  {JInt(101), JInt(0 - 7), JStr(Chars101), JStr(<<"1", "0", "1", "x">>), JStr(<<>>),
   JFloat(1010), JFloat(1015), JNull, JAbsent}
\* "  michael   chen "
SpacedName ==
  JStr(<<" ", " ", "m", "i", "c", "h", "a", "e", "l", " ", " ", " ", "c", "h", "e", "n", " ">>)
NameValues ==
  {MichaelChen, SpacedName, JStr(<<"l", "i", " ", " ", "c", "H", "E", "N">>), JStr(<<>>),
   JStr(<<" ">>), JStr(<<"\n", "a", "l", "\t", "\t", "L", "i", "\n">>),
   JStr(<<" ", "\t", "\n">>), JNull, JAbsent, JInt(7)}
DepartmentValues ==
  {JStr(<<"A", "I", "/", "M", "L">>), JStr(<<"a", "i">>), JStr(<<"a", "i", "/", "m", "l">>),
   JStr(<<"A", "I", "/", "M", "L", " ">>), JStr(<<>>), JNull, JAbsent}
  \cup {JStr(d) : d \in Department}
AgeValues == {JAbsent, JNull, JInt(15), JInt(16), JInt(17), JInt(79), JInt(80), JInt(81)}

EmployeeCandidates ==
  {EmployeeObject(id, name, age, JNull, department) :
     id \in IdValues, name \in NameValues, age \in {JAbsent}, department \in DepartmentValues}
  \cup {EmployeeObject(JInt(101), MichaelChen, age, JInt(120000), JStr(<<"A", "I", "/", "M", "L">>)) :
          age \in AgeValues}

\* the record of tests_schema.py: every field given, a date and a score
full_employee ==
  JObject([good_employee.v EXCEPT
             !.join_date = JStr(<<"2", "0", "2", "4", "-", "0", "1", "-", "0", "1">>),
             !.performance_score = JFloat(95),
             !.location = JStr(<<"C", "h", "i">>),
             !.job_title = JStr(<<"E", "n", "g">>)])
\* records whose floats are not finite, and a name that is not normalized
FloatCandidates ==
  {JObject([full_employee.v EXCEPT !.salary = salary, !.name = name]) :
     salary \in {JInf, JNegInf, JNaN, JFloat(5), JInt(0)},
     name \in {MichaelChen, JStr(<<" ", "l", "i", " ", " ", "c", "H", "E", "N", "\t">>)}}

RawRecordValues == {JStr(<<"c", "h", "e", "n">>), JStr(<<" ">>), JStr(<<>>), JNull, JAbsent}
NoId == JStr(<<"n", "o", " ", "i", "d">>)
ReasonsValues ==
  {JList(<<NoId>>), JList(<<>>), JList(<<JStr(<<>>)>>), JList(<<JStr(<<>>), JStr(<<>>)>>),
   JList(<<JStr(<<>>), NoId>>), JList(<<JStr(<<" ">>)>>), JList(<<JInt(1)>>), JNull, JAbsent}
RejectedCandidates ==
  {JObject([raw_record |-> raw, reasons |-> reasons]) :
     raw \in RawRecordValues, reasons \in ReasonsValues}

\* the candidates the longer lists are made of
ListedEmployees ==
  {good_employee, bad_employee,
   EmployeeObject(JStr(Chars101), MichaelChen, JAbsent, JNull, JStr(<<"A", "I", "/", "M", "L">>)),
   EmployeeObject(JInt(102), JStr(<<" ">>), JAbsent, JNull, JStr(<<"A", "I", "/", "M", "L">>))}
ListedRejected ==
  {no_id_rejected, JObject([raw_record |-> JStr(<<>>), reasons |-> JList(<<NoId>>)]),
   JObject([raw_record |-> JStr(<<"c", "h", "e", "n">>), reasons |-> JList(<<JStr(<<>>)>>)])}

\* the longest list of candidates in a document
MaxRecords == 2
ListsOver(S) == UNION {[1..n -> S] : n \in 0..MaxRecords}

Document(employees, rejected) == JObject([employees |-> employees, rejected |-> rejected])
Payloads ==
  {Document(JList(e), JList(r)) : e \in ListsOver(ListedEmployees), r \in ListsOver(ListedRejected)}
  \cup {Document(JList(<<c>>), JAbsent) : c \in EmployeeCandidates}
  \cup {Document(JList(<<good_employee, c>>), JList(<<no_id_rejected>>)) : c \in EmployeeCandidates}
  \cup {Document(JAbsent, JList(<<c>>)) : c \in RejectedCandidates}
  \cup {Document(JList(<<c, full_employee>>), JList(<<no_id_rejected>>)) : c \in FloatCandidates}
  \cup {Document(JList(<<good_employee>>), JList(<<no_id_rejected, c>>)) : c \in RejectedCandidates}

\* str(d) of a datetime.date: YYYY-MM-DD
DigitChars == <<"0", "1", "2", "3", "4", "5", "6", "7", "8", "9">>
RECURSIVE Padded(_, _)
Padded(n, width) ==
  IF width = 0 THEN <<>> ELSE Append(Padded(n \div 10, width - 1), DigitChars[(n % 10) + 1])
IsoFormat(d) == Padded(d.year, 4) \o <<"-">> \o Padded(d.month, 2) \o <<"-">> \o Padded(d.day, 2)

\* json.dumps(result, default=str), as the JSON value its text parses to:
\* None is null, a date is the string str(d), dicts and lists are objects
\* and arrays, numbers and strings are themselves
RECURSIVE json_dumps(_)
json_dumps(obj) ==
  CASE obj.t = "None" -> JNull
    [] obj.t = "date" -> JStr(IsoFormat(obj))
    [] obj.t = "dict" -> JObject([k \in DOMAIN obj.v |-> json_dumps(obj.v[k])])
    [] obj.t = "list" -> JList([i \in 1..Len(obj.v) |-> json_dumps(obj.v[i])])
    [] OTHER -> obj

ValidatorStart == \E doc \in Payloads : validator = [pc |-> "call", payload |-> doc]

\* data = ExtractedData.model_validate_json(text of the payload), then
\* state["result"] as _validate sets it
ValidatePayload ==
  /\ validator.pc = "call"
  /\ \E data \in {ExtractedData(validator.payload)} :
       validator' = [pc |-> "returned", payload |-> validator.payload, data |-> data,
                     result |-> validated_result(data)]
  /\ UNCHANGED <<raw_text, attempt, max_attempts, last_json_text, validation_error, result,
                 log, pc, calls, report, offline,
                 normalizer, query>>

\* the result of a passed validation, serialized as the app shows it and
\* validated again
RevalidateResult ==
  /\ validator.pc = "returned"
  /\ validator.result # None
  /\ \E text \in {json_dumps(validator.result)} :
     \E data \in {ExtractedData(text)} :
       validator' = [pc |-> "revalidated", payload |-> validator.payload,
                     data |-> validator.data, result |-> validator.result,
                     text |-> text,
                     again |-> [data |-> data, result |-> validated_result(data)]]
  /\ UNCHANGED <<raw_text, attempt, max_attempts, last_json_text, validation_error, result,
                 log, pc, calls, report, offline,
                 normalizer, query>>

(***************************************************************************)
(* _json_safe on its own: nested dicts and lists over scalars, finite and  *)
(* not, up to MaxDepth levels deep.                                        *)
(***************************************************************************)
PyDict(items) == [t |-> "dict", v |-> items]
PyList(items) == [t |-> "list", v |-> items]
Scalars ==
  {None, JInt(7), JFloat(15), JInf, JNegInf, JNaN, JStr(<<"n", "a", "n">>)}
Siblings == {JNaN, JInt(7)}

\* the deepest nesting of the objects
MaxDepth == 2
RECURSIVE Objects(_)
Objects(depth) ==
  IF depth = 0 THEN Scalars
  ELSE LET inner == Objects(depth - 1) IN
       inner
       \cup {PyList(<<>>), PyDict(<<>>)}
       \cup {PyList(<<x>>) : x \in inner}
       \cup {PyList(<<s, x>>) : x \in inner, s \in Siblings}
       \cup {PyDict([k \in {"a"} |-> x]) : x \in inner}
       \cup {PyDict([k \in {"a", "b"} |-> IF k = "a" THEN x ELSE s]) : x \in inner, s \in Siblings}

NormalizerStart == \E obj \in Objects(MaxDepth) : normalizer = [pc |-> "call", obj |-> obj]

\* once = _json_safe(obj)
JsonSafeOnce ==
  /\ normalizer.pc = "call"
  /\ \E once \in {_json_safe(normalizer.obj)} :
       normalizer' = [pc |-> "once", obj |-> normalizer.obj, once |-> once]
  /\ UNCHANGED <<raw_text, attempt, max_attempts, last_json_text, validation_error, result,
                 log, pc, calls, report, offline, validator, query>>

\* twice = _json_safe(once)
JsonSafeTwice ==
  /\ normalizer.pc = "once"
  /\ \E twice \in {_json_safe(normalizer.once)} :
       normalizer' = [pc |-> "twice", obj |-> normalizer.obj, once |-> normalizer.once,
                      twice |-> twice]
  /\ UNCHANGED <<raw_text, attempt, max_attempts, last_json_text, validation_error, result,
                 log, pc, calls, report, offline, validator, query>>

(***************************************************************************)
(* execute_query on its own.  A DataFrame is its column labels and its     *)
(* rows in order; a row keeps its index label and has one cell per column. *)
(* A missing value of a frame is NaN.                                      *)
(***************************************************************************)
FilterSpec(column, op, value) == [column |-> column, op |-> op, value |-> value]
QuerySpec(select, filters, distinct, limit) ==
  [select |-> select, filters |-> filters, distinct |-> distinct, limit |-> limit]
DataFrame(columns, rows) == [t |-> "frame", columns |-> columns, rows |-> rows]

\* col in out.columns
HasColumn(out, col) == \E k \in 1..Len(out.columns) : out.columns[k] = col
ColumnAt(out, col) == CHOOSE k \in 1..Len(out.columns) : out.columns[k] = col

\* Series.isna()
isna(cell) == cell.t \in {"nan", "None"}

\* a number in tenths
IsNumber(v) == v.t \in {"int", "float"}
Tenths(v) == IF v.t = "int" THEN 10 * v.v ELSE v.v

\* cell == val, elementwise: numbers compare by value, NaN equals nothing
PyEq(cell, val) ==
  IF isna(cell) \/ isna(val) THEN FALSE
  ELSE IF IsNumber(cell) /\ IsNumber(val) THEN Tenths(cell) = Tenths(val)
  ELSE cell = val

\* str(v)
RECURSIVE DecimalChars(_)
DecimalChars(n) ==
  IF n < 10 THEN <<DigitChars[n + 1]>>
  ELSE DecimalChars(n \div 10) \o <<DigitChars[(n % 10) + 1]>>
str(v) ==
  CASE v.t = "str" -> v.v
    [] v.t = "int" -> IF v.v < 0 THEN <<"-">> \o DecimalChars(0 - v.v) ELSE DecimalChars(v.v)
    [] v.t = "float" ->
         (IF v.v < 0 THEN <<"-">> ELSE <<>>)
           \o LET a == IF v.v < 0 THEN 0 - v.v ELSE v.v
              IN  DecimalChars(a \div 10) \o <<".">> \o DecimalChars(a % 10)
    [] v.t = "nan" -> <<"n", "a", "n">>
    [] v.t = "None" -> <<"N", "o", "n", "e">>

\* Series.str.contains(pat, case=False) for a pattern of plain characters
str_contains(chars, pat) ==
  \E k \in 0..(Len(chars) - Len(pat)) :
    LowerChars(SubSeq(chars, k + 1, k + Len(pat))) = LowerChars(pat)

\* pd.to_numeric(cell, errors="coerce")
to_numeric(cell) ==
  IF IsNumber(cell) THEN JFloat(Tenths(cell))
  ELSE IF cell.t = "str" /\ IsDecimal(cell.v) THEN JFloat(10 * DecimalValue(cell.v))
  ELSE JNaN

\* float(val): ValueError for a text that is no number, TypeError for None or a list
float_of(val) ==
  IF IsNumber(val) THEN JFloat(Tenths(val))
  ELSE IF val.t = "str" /\ IsDecimal(val.v) THEN JFloat(10 * DecimalValue(val.v))
  ELSE Raised

\* out[col] == val as text, a mask that compares what the values print as
eq_mask_as_text(cell, val) ==
  IF val = None THEN isna(cell) ELSE str(cell) = str(val)

\* op == "eq": out[col].isna() if val is None else out[col] == val
eq_mask(cell, val) ==
  IF val = None THEN isna(cell) ELSE PyEq(cell, val)

\* op == "neq"
neq_mask(cell, val) ==
  IF val = None THEN ~isna(cell) ELSE ~PyEq(cell, val)

\* op == "contains"
contains_mask(cell, val) == str_contains(str(cell), str(val))

\* op == "in": a value that is no list is a list of one
in_mask(cell, val) ==
  LET values == IF val.t = "list" THEN val.v ELSE <<val>>
  IN  \E k \in 1..Len(values) :
        IF isna(cell) THEN values[k].t = "nan" ELSE PyEq(cell, values[k])

\* op == "gte", op == "lte": a comparison with NaN is False
gte_mask(cell, val) ==
  to_numeric(cell).t = "float" /\ to_numeric(cell).v >= float_of(val).v
lte_mask(cell, val) ==
  to_numeric(cell).t = "float" /\ to_numeric(cell).v <= float_of(val).v

\* the mask of one operator
filter_mask(op, cell, val) ==
  CASE op = "eq" -> eq_mask(cell, val)
    [] op = "neq" -> neq_mask(cell, val)
    [] op = "contains" -> contains_mask(cell, val)
    [] op = "in" -> in_mask(cell, val)
    [] op = "gte" -> gte_mask(cell, val)
    [] op = "lte" -> lte_mask(cell, val)

\* out[mask]: the rows of the mask, in the order of the frame
Keep(out, f) ==
  [out EXCEPT !.rows = SelectSeq(out.rows,
                                 LAMBDA r : filter_mask(f.op, r.cells[ColumnAt(out, f.column)],
                                                        f.value))]

\* one turn of the loop over spec.filters
apply_filter(out, f) ==
  IF ~HasColumn(out, f.column) THEN out
  ELSE IF f.op \in {"eq", "neq", "contains", "in"} THEN Keep(out, f)
  ELSE IF f.op \in {"gte", "lte"}
       THEN IF float_of(f.value) = Raised THEN Raised ELSE Keep(out, f)
  ELSE out

RECURSIVE apply_filters(_, _)
apply_filters(out, filters) ==
  IF filters = <<>> \/ out = Raised THEN out
  ELSE apply_filters(apply_filter(out, Head(filters)), Tail(filters))

\* [c for c in spec.select if c in out.columns]
safe_select(select, out) == SelectSeq(select, LAMBDA c : HasColumn(out, c))

\* out[columns]
Columns(out, columns) ==
  DataFrame(columns,
            [i \in 1..Len(out.rows) |->
               [index |-> out.rows[i].index,
                cells |-> [k \in 1..Len(columns) |->
                             out.rows[i].cells[ColumnAt(out, columns[k])]]]])

\* DataFrame.drop_duplicates(): the first of the rows with the same cells
\* stays; a frame with no column or no row is returned as it is
drop_duplicates(out) ==
  IF Len(out.columns) = 0 \/ Len(out.rows) = 0 THEN out
  ELSE LET first(i) == \A j \in 1..(i - 1) : out.rows[j].cells # out.rows[i].cells
           RECURSIVE firsts(_)
           firsts(i) ==
             IF i > Len(out.rows) THEN <<>>
             ELSE (IF first(i) THEN <<out.rows[i]>> ELSE <<>>) \o firsts(i + 1)
       IN  [out EXCEPT !.rows = firsts(1)]

\* DataFrame.head(n) is iloc[:n]
head(out, n) == [out EXCEPT !.rows = PySlice(out.rows, n)]

execute_query(spec, df) ==
  LET filtered == apply_filters(df, spec.filters) IN
  IF filtered = Raised THEN Raised
  ELSE LET selected == IF spec.select # <<>>
                       THEN Columns(filtered, safe_select(spec.select, filtered))
                       ELSE filtered
           distinct == IF spec.distinct THEN drop_duplicates(selected) ELSE selected
       IN  head(distinct, spec.limit)

\* the frames: Name, Department and Level of up to MaxRows employees
AI == JStr(<<"A", "I">>)
ML == JStr(<<"M", "L">>)
FrameColumns == <<"Name", "Department", "Level">>
RowValues ==
  {<<name, department, IF name = JStr(<<"A">>) THEN JInt(1) ELSE JInt(2)>> :
     name \in {JStr(<<"A">>), JStr(<<"C">>)}, department \in {AI, ML, JNaN}}
MaxRows == 2
Frames ==
  {DataFrame(FrameColumns,
             [i \in 1..Len(cells) |-> [index |-> i - 1, cells |-> cells[i]]]) :
     cells \in UNION {[1..n -> RowValues] : n \in 0..MaxRows}}

\* the plans: eq filters on a column of the frame and filters on a column it
\* lacks, alone and in pairs, and one filter of every other operator
EqFilters ==
  {FilterSpec("Department", "eq", AI), FilterSpec("Department", "eq", JStr(<<"a", "i">>)),
   FilterSpec("Department", "eq", None), FilterSpec("Department", "eq", JInt(1)),
   FilterSpec("Level", "eq", JInt(1)), FilterSpec("Level", "eq", JFloat(10)),
   FilterSpec("Level", "eq", JStr(<<"1">>))}
SkippedFilters ==
  {FilterSpec("Team", "eq", AI), FilterSpec("Team", "gte", AI)}
OtherFilters ==
  {FilterSpec("Department", "neq", AI), FilterSpec("Department", "neq", None),
   FilterSpec("Department", "contains", JStr(<<"a">>)),
   FilterSpec("Level", "contains", JInt(1)),
   FilterSpec("Department", "in", PyList(<<AI, ML>>)), FilterSpec("Department", "in", AI),
   FilterSpec("Level", "gte", JInt(2)), FilterSpec("Department", "gte", AI),
   FilterSpec("Level", "gte", None), FilterSpec("Level", "lte", JFloat(15)),
   FilterSpec("Department", "like", AI)}
EqFilterLists ==
  {<<>>}
  \cup {<<f>> : f \in EqFilters \cup SkippedFilters}
  \cup {<<s, f>> : s \in SkippedFilters,
                   f \in {FilterSpec("Department", "eq", AI), FilterSpec("Level", "eq", JInt(1))}}
  \cup {<<FilterSpec("Department", "eq", AI), FilterSpec("Level", "eq", JInt(1))>>,
        <<FilterSpec("Level", "eq", JInt(1)), FilterSpec("Department", "eq", None)>>,
        <<FilterSpec("Department", "eq", AI), FilterSpec("Team", "gte", AI)>>}
Selects == {<<>>, <<"Name">>, <<"Team", "Department", "Name">>, <<"Team">>}
\* distinct and limit: the defaults, and no distinct, a limit of one, a negative limit
Settings == {<<TRUE, 50>>, <<FALSE, 50>>, <<FALSE, 1>>, <<TRUE, -1>>}
Plans ==
  {QuerySpec(select, filters, s[1], s[2]) :
     select \in Selects, filters \in EqFilterLists, s \in Settings}
  \cup {QuerySpec(select, <<f>>, TRUE, 50) : select \in {<<>>, <<"Name">>}, f \in OtherFilters}

QueryStart == \E df \in Frames, spec \in Plans : query = [pc |-> "call", spec |-> spec, df |-> df]

\* out = execute_query(spec, df)
ExecuteQuery ==
  /\ query.pc = "call"
  /\ \E out \in {execute_query(query.spec, query.df)} :
       query' = [pc |-> IF out = Raised THEN "raised" ELSE "returned",
                 spec |-> query.spec, df |-> query.df, out |-> out]
  /\ UNCHANGED <<raw_text, attempt, max_attempts, last_json_text, validation_error, result,
                 log, pc, calls, report, offline, validator, normalizer>>

Next ==
  \/ Extract \/ ExtractRaises \/ Validate \/ Correct \/ CorrectRaises \/ IncAttempt
  \/ SuiteReport
  \/ OfflineStep \/ OfflineExhausted

Spec == Init /\ [][Next]_vars

\* one run of run_agent whose generator calls all return: graph.invoke runs
\* the next node as long as there is one
AgentInit == AgentStart /\ offline = OfflineIdle /\ NoCalls
NextReturning == Extract \/ Validate \/ Correct \/ IncAttempt
ReturningSpec == AgentInit /\ [][NextReturning]_vars /\ WF_vars(NextReturning)

\* a run of run_agent and a run of run_offline_agent whose steps interleave
\* in every order, as two workers of a pool would run them
PairBudgets == {1, 2}
PairCandidates == UNION {[1..n -> {Text("bad"), Text("good")}] : n \in 0..2}
PairInit ==
  /\ AgentStart /\ max_attempts \in PairBudgets
  /\ \E c \in PairCandidates, b \in PairBudgets : offline = OfflineStart(c, b)
  /\ NoCalls
AgentNext ==
  Extract \/ ExtractRaises \/ Validate \/ Correct \/ CorrectRaises \/ IncAttempt \/ SuiteReport
OfflineNext == OfflineStep \/ OfflineExhausted
PairNext == AgentNext \/ OfflineNext
PairSpec == PairInit /\ [][PairNext]_vars

\* a run of run_offline_agent over a sequence of outputs and a run of
\* run_agent with the same max_attempts, whose generator may answer with the
\* outputs of the sequence
MaxReplay == 2
ReplayTexts == {Text("good"), [Text("good") EXCEPT !.ws = 1], Text("bad"), Text("long_good")}
ReplayInit ==
  /\ AgentStart /\ max_attempts \in (0 - 1)..MaxReplay
  /\ \E n \in 1..MaxReplay : \E c \in [1..n -> ReplayTexts] :
       n >= max_attempts /\ offline = OfflineStart(c, max_attempts)
  /\ NoCalls
ReplaySpec == ReplayInit /\ [][PairNext]_vars

\* _json_safe applied to one object, and to its own result
NormalizerInit ==
  /\ AgentIdle /\ offline = OfflineIdle /\ NormalizerStart
  /\ validator = ValidatorIdle /\ query = QueryIdle
NormalizerNext == JsonSafeOnce \/ JsonSafeTwice
NormalizerSpec == NormalizerInit /\ [][NormalizerNext]_vars

\* the schema applied to one document
SchemaInit ==
  /\ AgentIdle /\ offline = OfflineIdle /\ ValidatorStart
  /\ normalizer = NormalizerIdle /\ query = QueryIdle
SchemaNext == ValidatePayload \/ RevalidateResult
SchemaSpec == SchemaInit /\ [][SchemaNext]_vars

\* execute_query applied to one frame and one plan
QueryInit ==
  /\ AgentIdle /\ offline = OfflineIdle /\ QueryStart
  /\ validator = ValidatorIdle /\ normalizer = NormalizerIdle
QueryNext == ExecuteQuery
QueryRunSpec == QueryInit /\ [][QueryNext]_vars

(***************************************************************************)
(* Reading the audit log.                                                  *)
(***************************************************************************)
RECURSIVE CountStep(_, _)
CountStep(entries, step) ==
  IF entries = <<>> THEN 0
  ELSE (IF Head(entries).step = step THEN 1 ELSE 0) + CountStep(Tail(entries), step)

\* whether the text of the run validates, read off the schema and not off
\* what the run recorded
TextIsValid(s) == model_validate_json(s).ok

\* every call the generator received returned a text that fails the schema
EveryOutputInvalid ==
  \A i \in 1..Len(calls) :
    calls[i].output # Raised /\ ~TextIsValid(StrippedOutput(calls[i].output))

(***************************************************************************)
(* The claims.                                                             *)
(***************************************************************************)

\* C1: after every validate step the controller goes to finalize (END) if the
\* validation passed or if it failed with attempt >= max_attempts, and to
\* correct if and only if it failed with attempt < max_attempts; validate has
\* no other successor.
C1_ValidateRouting ==
  [][pc = "validate" /\ pc' # pc =>
       LET ok == TextIsValid(last_json_text) IN
       /\ pc' \in {"END", "correct"}
       /\ (pc' = "END") <=> (ok \/ attempt >= max_attempts)
       /\ (pc' = "correct") <=> (~ok /\ attempt < max_attempts)
       /\ ok <=> (result' # None)]_vars

\* a run that retried once and then stopped on the budget with no result
C1_Witness ==
  pc = "END" /\ result = None /\ attempt = 2 /\ max_attempts = 2 /\ Len(log) = 4

\* C2: a run of run_agent with max_attempts = 1 never logs a correct entry
\* and ends with exactly one extract entry and exactly one validate entry,
\* whatever the input text and whatever the generator answers.
C2_SinglePass ==
  max_attempts = 1 =>
    /\ CountStep(log, "correct") = 0
    /\ CountStep(log, "extract") <= 1 /\ CountStep(log, "validate") <= 1
    /\ pc = "END" => CountStep(log, "extract") = 1 /\ CountStep(log, "validate") = 1

\* a run with max_attempts = 1 that ended on a failed validation
C2_Witness ==
  pc = "END" /\ max_attempts = 1 /\ result = None /\ Len(log) = 2 /\ log[2].status = "fail"

\* C3: if every generator call returns schema-invalid text, a run with
\* max_attempts = N >= 1 ends with result = None, exactly N validate entries,
\* all with status fail, and exactly N - 1 correct entries.
C3_AlwaysInvalid ==
  (pc = "END" /\ max_attempts >= 1 /\ EveryOutputInvalid) =>
    /\ result = None
    /\ CountStep(log, "validate") = max_attempts
    /\ \A i \in 1..Len(log) : log[i].step = "validate" => log[i].status = "fail"
    /\ CountStep(log, "correct") = max_attempts - 1

\* the scenario of the specification: the same invalid JSON three times
C3_Witness ==
  /\ pc = "END" /\ max_attempts = 3 /\ Len(calls) = 3
  /\ \A i \in 1..3 : calls[i].output = Text("bad")
  /\ result = None /\ CountStep(log, "validate") = 3 /\ CountStep(log, "correct") = 2

\* C4: the attempt counter is 1 at the start of a run and changes only in
\* the step from correct to validate (the inc_attempt node), where it grows
\* by exactly 1; extract and validate leave it alone, so it is never more
\* than one ahead of the validations done.
C4_AttemptCounter ==
  /\ [](pc = "extract" => attempt = 1)
  /\ [](pc # "idle" => attempt <= CountStep(log, "validate") + 1)
  /\ [][attempt' # attempt =>
          (pc = "inc_attempt" /\ pc' = "validate" /\ attempt' = attempt + 1
             /\ log[Len(log)].step = "correct")]_vars
  /\ [][(pc \in {"extract", "validate"}) => attempt' = attempt]_vars

\* the counter after two corrections
C4_Witness == pc = "validate" /\ attempt = 3 /\ CountStep(log, "correct") = 2

\* C5: every run whose generator calls return reaches finalize (END), for
\* every max_attempts and every sequence of generator outputs, after at most
\* max(1, max_attempts) validate steps.
C5_Termination ==
  /\ <>(pc = "END")
  /\ [](CountStep(log, "validate") <= Max(1, max_attempts))

\* a generator that repeats the same invalid output until the budget ends
C5_Witness ==
  /\ pc = "END" /\ max_attempts = 3 /\ Len(calls) = 3
  /\ \A i \in 1..3 : calls[i].output = Text("not_json")
  /\ CountStep(log, "validate") = 3

\* the generation entries of the log, in order
IsGenerationEntry(e) == e.step \in {"extract", "correct"}
GenerationEntries(entries) == SelectSeq(entries, IsGenerationEntry)

\* the log holds one entry for each call the generator answered, with the
\* text it answered cut to output_limit, and one for each validation
LogIsComplete ==
  /\ Len(GenerationEntries(log)) = Len(calls)
  /\ \A i \in 1..Len(calls) :
       GenerationEntries(log)[i].output = Slice(StrippedOutput(calls[i].output), output_limit)
  /\ CountStep(log, "validate") = attempt
  /\ Len(log) = Len(calls) + attempt

\* C6: in the terminal state of a run that returns, result is non-null if
\* and only if the last validate entry of the log has status pass; when the
\* budget is exhausted result is null and the state still carries the
\* complete log and the last raw generator text.
C6_TerminalState ==
  pc = "END" =>
    /\ log # <<>> /\ log[Len(log)].step = "validate"
    /\ (result # None) <=> (log[Len(log)].status = "pass")
    /\ (result # None) <=> TextIsValid(last_json_text)
    /\ result = None =>
         /\ attempt >= max_attempts
         /\ LogIsComplete
         /\ last_json_text = StrippedOutput(calls[Len(calls)].output)

\* a budget-exhausted run whose last text was longer than the log keeps
C6_Witness ==
  /\ pc = "END" /\ result = None /\ max_attempts = 2 /\ attempt = 2
  /\ last_json_text = Text("long_bad")
  /\ log[3].output # last_json_text

\* C7: a hard failure of a generator call (in extract or in correct) ends
\* the run at once: the failing step and everything after it leave the log
\* and the rest of the run state as they were, no further node runs, and the
\* caller sees the crash (ERROR), never the budget-exhausted outcome (FAIL,
\* a returned state with result = None).
C7_HardFailure ==
  /\ [][pc' = "raised" =>
          (log' = log /\ result' = result /\ attempt' = attempt
             /\ last_json_text' = last_json_text
             /\ validation_error' = validation_error)]_vars
  /\ [][pc = "raised" => pc' = "raised"]_vars
  /\ [](report # None =>
          /\ (report.verdict = "ERROR") <=> (pc = "raised")
          /\ (report.verdict = "FAIL") <=> (pc = "END" /\ result = None)
          /\ (report.verdict = "PASS") <=> (pc = "END" /\ result # None))

\* a correct call failed after two entries were logged, and was reported
C7_Witness ==
  /\ pc = "raised" /\ report = CrashLine /\ Len(log) = 2
  /\ calls[Len(calls)].node = "correct" /\ calls[Len(calls)].output = Raised

IsPrefix(s, t) == Len(s) <= Len(t) /\ SubSeq(t, 1, Len(s)) = s

\* C8: the audit log is append-only with one entry per step: every extract,
\* validate and correct step adds exactly one entry, of that step, at the
\* end and leaves the earlier entries as they were, so the log at any step
\* boundary is a prefix of the log at every later point of the run.
C8_AppendOnly ==
  /\ [][IsPrefix(log, log')]_vars
  /\ [][(pc \in {"extract", "validate", "correct"} /\ pc' \notin {pc, "raised"}) =>
          (Len(log') = Len(log) + 1 /\ log'[Len(log')].step = pc
             /\ log'[Len(log')].attempt = attempt)]_vars
  /\ [][(pc \notin {"extract", "validate", "correct"}) => log' = log]_vars
  /\ [][offline.pc = "loop" => IsPrefix(offline.log, offline'.log)]_vars

\* a log of six entries, the third of them still the first correct entry
C8_Witness ==
  /\ pc = "END" /\ Len(log) = 6 /\ attempt = 3
  /\ log[1].step = "extract" /\ log[3].step = "correct" /\ log[3].attempt = 1
  /\ log[5].step = "correct" /\ log[5].attempt = 2

\* C9: every failed validation is recorded: when the text of an attempt
\* fails validation, the step appends a validate entry with that attempt
\* number, status fail and a non-empty error description (in run_agent and
\* in run_offline_agent).
C9_FailureLogged ==
  /\ [][(pc = "validate" /\ pc' # pc /\ ~TextIsValid(last_json_text)) =>
          LET e == log'[Len(log')] IN
          (Len(log') = Len(log) + 1 /\ e.step = "validate" /\ e.attempt = attempt
             /\ e.status = "fail" /\ ~IsEmpty(e.error) /\ e.error.body # {}
             /\ e.error = Slice(validation_error', error_limit))]_vars
  /\ [][(offline.pc = "loop" /\ offline' # offline /\ offline.todo # <<>>
           /\ ~TextIsValid(Head(offline.todo))) =>
          LET e == offline'.log[Len(offline'.log)] IN
          (Len(offline'.log) = Len(offline.log) + 2 /\ e.step = "validate"
             /\ e.attempt = offline.attempt /\ e.status = "fail" /\ ~IsEmpty(e.error))]_vars

\* two failed validations, both in the log with their attempt numbers, the
\* second with an error text the log had to cut
C9_Witness ==
  /\ pc = "END" /\ Len(log) = 4 /\ result = None
  /\ log[2].status = "fail" /\ log[2].attempt = 1
  /\ log[4].status = "fail" /\ log[4].attempt = 2
  /\ log[4].error.len = error_limit /\ validation_error.len > error_limit

\* C10: a failed run and a successful empty run are never confused: a text
\* that passes validation with zero Records ends the run with a non-null
\* result holding its rejected entries and is reported PASS; a run that
\* ended on a failed validation (budget exhausted) has result = None and is
\* reported FAIL.
C10_EmptyVersusFailed ==
  pc = "END" =>
    LET data == model_validate_json(last_json_text) IN
    /\ (data.ok /\ data.v.employees = <<>>) =>
         /\ result # None
         /\ result.v.employees.v = <<>>
         /\ Len(result.v.rejected.v) = Len(data.v.rejected)
         /\ report # None =>
              (report.verdict = "PASS" /\ report.employees = 0
                 /\ report.rejected = Len(data.v.rejected))
    /\ ~data.ok =>
         /\ result = None
         /\ attempt >= max_attempts
         /\ report # None => report.verdict = "FAIL"

\* a run that passed with no Record and one rejected entry, as reported
C10_Witness ==
  /\ pc = "END" /\ last_json_text = Text("empty_rejected")
  /\ report # None /\ report.verdict = "PASS"
  /\ report.employees = 0 /\ report.rejected = 1

\* the candidates of a list of the document; an absent list has none
CandidatesOf(j) == IF j.t = "list" THEN j.v ELSE <<>>

\* C11: validation is all-or-nothing on the whole document: it passes if and
\* only if every Record candidate and every RejectedEntry candidate of the
\* document is valid; if any single entry is invalid the result is null and
\* none of the document's valid Records is kept, and a passed document keeps
\* every one of its entries.
C11_AllOrNothing ==
  validator.pc = "returned" =>
    LET employees == CandidatesOf(validator.payload.v.employees)
        rejected == CandidatesOf(validator.payload.v.rejected)
        allValid == /\ \A i \in 1..Len(employees) : Employee(employees[i]).ok
                    /\ \A i \in 1..Len(rejected) : RejectedRecord(rejected[i]).ok
    IN /\ validator.data.ok <=> allValid
       /\ ~allValid => validator.result = None
       /\ allValid =>
            /\ validator.result # None
            /\ Len(validator.result.v.employees.v) = Len(employees)
            /\ Len(validator.result.v.rejected.v) = Len(rejected)

\* a document with one valid Record beside an invalid one, and no result
C11_Witness ==
  /\ validator.pc = "returned" /\ validator.result = None
  /\ validator.payload.v.employees = JList(<<good_employee, bad_employee>>)
  /\ validator.payload.v.rejected = JList(<<no_id_rejected>>)

\* a JSON value that is an integer: an integer literal, or a number whose
\* fractional part is zero
IsIntegerJson(j) == j.t = "int" \/ (j.t = "float" /\ j.v % 10 = 0)

\* C12: user_id is never coerced: a Record candidate whose user_id is absent
\* or is any non-integer value (the string "101", a non-integral number)
\* fails validation, and so fails the whole document.
C12_NeverCoerced ==
  validator.pc = "returned" =>
    LET employees == CandidatesOf(validator.payload.v.employees) IN
    (\E i \in 1..Len(employees) : ~IsIntegerJson(employees[i].v.user_id)) =>
      (~validator.data.ok /\ validator.result = None)

\* the document a text parses to
DocumentIn(s) == JsonDocs[s.body]

\* every field constraint of Employee, read on a dumped Record
RecordIsValid(r) ==
  /\ r.user_id.t = "int"
  /\ r.name.t = "str" /\ Len(r.name.v) >= name_min_length
  /\ r.age = None \/ (r.age.t = "int" /\ r.age.v >= age_ge /\ r.age.v <= age_le)
  /\ r.salary = None \/ (r.salary.t = "float" /\ r.salary.v >= 0)
  /\ r.department.t = "str" /\ r.department.v \in Department
  /\ r.performance_score = None
       \/ (r.performance_score.t = "float" /\ r.performance_score.v >= 0
             /\ r.performance_score.v <= 100)

\* C13: in every reachable state of a run, for any number of correction
\* cycles, a non-null result contains only Records that satisfy every field
\* constraint simultaneously, and a fragment whose user_id is absent or
\* non-integer in the validated text never appears among the Records of an
\* accepted result.
C13_OnlyValidRecords ==
  result # None =>
    LET employees == CandidatesOf(DocumentIn(last_json_text).v.employees)
        records == result.v.employees.v
    IN /\ Len(records) = Len(employees)
       /\ \A i \in 1..Len(records) : RecordIsValid(records[i].v)
       /\ \A i \in 1..Len(employees) : IsIntegerJson(employees[i].v.user_id)

\* a name that is the empty string once trimmed
IsBlankName(j) == j.t = "str" /\ StripChars(j.v) = <<>>

\* C14: a Record candidate whose name is the empty string after trimming (a
\* name made only of whitespace) fails validation; no accepted Record has an
\* empty name.
C14_NameNotEmpty ==
  validator.pc = "returned" =>
    LET employees == CandidatesOf(validator.payload.v.employees) IN
    /\ (\E i \in 1..Len(employees) : IsBlankName(employees[i].v.name)) =>
         (~validator.data.ok /\ validator.result = None)
    /\ validator.result # None =>
         \A i \in 1..Len(validator.result.v.employees.v) :
           validator.result.v.employees.v[i].v.name.v # <<>>

\* a RejectedEntry candidate with a non-empty raw_record and at least one
\* non-empty reason string
HasRawAndReason(c) ==
  /\ c.v.raw_record.t = "str" /\ c.v.raw_record.v # <<>>
  /\ c.v.reasons.t = "list"
  /\ \E k \in 1..Len(c.v.reasons.v) :
       c.v.reasons.v[k].t = "str" /\ c.v.reasons.v[k].v # <<>>

\* C15: each RejectedEntry candidate is valid only if its raw_record is a
\* non-empty string and its reasons list contains at least one non-empty
\* reason string; a candidate with empty raw_record, with an empty reasons
\* list, or with only empty reason strings fails the document.
C15_RejectedEntryValid ==
  validator.pc = "returned" =>
    LET rejected == CandidatesOf(validator.payload.v.rejected) IN
    (\E i \in 1..Len(rejected) : ~HasRawAndReason(rejected[i])) =>
      (~validator.data.ok /\ validator.result = None)

\* C16: the offline harness consumes the candidate sequence in order, stops
\* at the first candidate that passes validation, and for every candidate
\* sequence and every max_attempts value it accepts performs at most
\* max_attempts validations and at most len(candidates) validations.
C16_OfflineBounded ==
  offline.pc # "idle" =>
    LET validations == CountStep(offline.log, "validate") IN
    /\ validations <= Max(0, offline.max_attempts)
    /\ validations <= Len(offline.candidates)
    /\ Len(offline.log) = 2 * validations
    /\ \A i \in 1..validations :
         /\ offline.log[2 * i - 1].step = "extract"
         /\ offline.log[2 * i - 1].output = offline.candidates[i]
         /\ offline.log[2 * i].step = "validate"
         /\ (i < validations => offline.log[2 * i].status = "fail")
         /\ (offline.log[2 * i].status = "pass") <=> TextIsValid(offline.candidates[i])

\* C17: if the first k-1 candidates given to the offline harness are invalid
\* and the k-th is valid, with k <= max_attempts, the harness returns a
\* non-null result that is the validated k-th candidate, last_json_text is
\* the k-th candidate, and the log has exactly k extract entries and k
\* validate entries (so at least 3 entries when k = 2), the last validate
\* with status pass and the earlier ones with status fail.
C17_FirstValidReturned ==
  offline.pc = "returned" =>
    \A k \in 1..Len(offline.candidates) :
      (/\ k <= offline.max_attempts
       /\ \A i \in 1..(k - 1) : ~TextIsValid(offline.candidates[i])
       /\ TextIsValid(offline.candidates[k])) =>
        LET out == offline.returned IN
        /\ out.result # None
        /\ out.result = model_dump(model_validate_json(offline.candidates[k]).v)
        /\ out.last_json_text = offline.candidates[k]
        /\ CountStep(out.log, "extract") = k /\ CountStep(out.log, "validate") = k
        /\ Len(out.log) = 2 * k /\ (k = 2 => Len(out.log) >= 3)
        /\ \A i \in 1..k :
             /\ out.log[2 * i - 1].step = "extract"
             /\ out.log[2 * i - 1].attempt = i
             /\ out.log[2 * i - 1].output = offline.candidates[i]
             /\ out.log[2 * i].step = "validate"
             /\ out.log[2 * i].attempt = i
             /\ out.log[2 * i].status = (IF i = k THEN "pass" ELSE "fail")

\* the test of the repository: [bad, good] with max_attempts = 2
C17_Witness ==
  /\ offline.pc = "returned"
  /\ offline.candidates = <<Text("bad"), Text("good")>> /\ offline.max_attempts = 2
  /\ offline.returned.result # None /\ Len(offline.returned.log) = 4
  /\ offline.returned.last_json_text = Text("good")

\* C18: every correct step sends to the generator exactly the raw text
\* produced by the immediately preceding generation step (extract or
\* correct) together with the full error description of the immediately
\* preceding failed validation of that same text; a correct step never runs
\* on a text that has not been validated and failed.
C18_CorrectInput ==
  [][(pc = "correct" /\ pc' # pc) =>
       LET call == calls'[Len(calls')]
           before == calls[Len(calls)]
           failed == log[Len(log)]
           errors == model_validate_json(last_json_text)
       IN /\ Len(calls') = Len(calls) + 1 /\ call.node = "correct"
          /\ before.output # Raised
          /\ call.payload.previous_json = StrippedOutput(before.output)
          /\ call.payload.previous_json = last_json_text
          /\ ~errors.ok
          /\ call.payload.validation_error.body = errors.errors
          /\ call.payload.validation_error = validation_error
          /\ ~IsEmpty(call.payload.validation_error)
          /\ failed.step = "validate" /\ failed.status = "fail" /\ failed.attempt = attempt
          /\ failed.error = Slice(call.payload.validation_error, error_limit)
          /\ result = None]_vars

\* a correction that was sent an error text longer than the log keeps, for
\* a text that was itself the answer of a correction
C18_Witness ==
  /\ Len(calls) = 3 /\ calls[3].node = "correct"
  /\ calls[3].payload.previous_json = Text("long_bad")
  /\ calls[3].payload.validation_error.len > error_limit
  /\ log[4].error.len = error_limit

\* C19: after every validate step, validation_error is the empty string if
\* and only if that validation passed (and then result is non-null); after a
\* failed validation validation_error is non-empty and result is null.
C19_ErrorIffFailed ==
  /\ [][(pc = "validate" /\ pc' # pc) =>
          LET ok == TextIsValid(last_json_text) IN
          /\ IsEmpty(validation_error') <=> ok
          /\ ok => (validation_error' = NoError /\ result' # None)
          /\ ~ok => (~IsEmpty(validation_error') /\ result' = None
                       /\ validation_error'.body = model_validate_json(last_json_text).errors)]_vars
  /\ [](pc \in {"correct", "END"} => (IsEmpty(validation_error) <=> result # None))

\* a validation that passed after one that failed: the error is empty again
C19_Witness ==
  /\ pc = "END" /\ attempt = 2 /\ result # None /\ validation_error = NoError
  /\ Len(log) = 4 /\ log[2].status = "fail" /\ log[4].status = "pass"

\* the state of the run of run_agent, and what its caller prints
agentVars ==
  <<raw_text, attempt, max_attempts, last_json_text, validation_error, result, log, pc,
    calls, report>>

C21_RoundTrip ==
  validator.pc = "revalidated" =>
    /\ validator.again.data.ok
    /\ validator.again.result = validator.result
    /\ \A i \in 1..Len(validator.result.v.employees.v) :
         validator.again.data.v.employees[i].user_id =
           validator.result.v.employees.v[i].v.user_id

IsNonFinite(x) == x.t \in {"inf", "-inf", "nan"}

\* a non-finite float somewhere in the object
RECURSIVE HasNonFinite(_)
HasNonFinite(obj) ==
  CASE obj.t = "dict" -> \E k \in DOMAIN obj.v : HasNonFinite(obj.v[k])
    [] obj.t = "list" -> \E i \in 1..Len(obj.v) : HasNonFinite(obj.v[i])
    [] OTHER -> IsNonFinite(obj)

\* out is obj with None in the place of each non-finite float: the same
\* keys, the same lengths and order, the same values everywhere else
RECURSIVE SameButNonFinite(_, _)
SameButNonFinite(obj, out) ==
  CASE obj.t = "dict" ->
         /\ out.t = "dict" /\ DOMAIN out.v = DOMAIN obj.v
         /\ \A k \in DOMAIN obj.v : SameButNonFinite(obj.v[k], out.v[k])
    [] obj.t = "list" ->
         /\ out.t = "list" /\ Len(out.v) = Len(obj.v)
         /\ \A i \in 1..Len(obj.v) : SameButNonFinite(obj.v[i], out.v[i])
    [] OTHER -> out = (IF IsNonFinite(obj) THEN None ELSE obj)

\* C22: _json_safe is idempotent and total on nested mappings, lists and
\* scalars: its output contains no non-finite float (NaN, +inf, -inf) at any
\* depth, every other value and the structure (keys, order, lengths) are
\* unchanged, and applying it twice gives the same result as applying it once.
C22_JsonSafe ==
  /\ normalizer.pc \in {"once", "twice"} =>
       /\ ~HasNonFinite(normalizer.once)
       /\ SameButNonFinite(normalizer.obj, normalizer.once)
  /\ normalizer.pc = "twice" => normalizer.twice = normalizer.once

\* a dict holding a list with an infinity beside a NaN, normalized twice
C22_Witness ==
  /\ normalizer.pc = "twice"
  /\ normalizer.obj = PyDict([k \in {"a", "b"} |->
                               IF k = "a" THEN PyList(<<JNaN, JInf>>) ELSE JInt(7)])
  /\ normalizer.once = PyDict([k \in {"a", "b"} |->
                                IF k = "a" THEN PyList(<<None, None>>) ELSE JInt(7)])

\* the characters of s that are not whitespace, lower-cased, in order
RECURSIVE Letters(_)
Letters(s) ==
  IF s = <<>> THEN <<>>
  ELSE (IF Head(s) \in Whitespace THEN <<>> ELSE <<ToLower(Head(s))>>) \o Letters(Tail(s))

\* the positions of s where a word starts
WordStarts(s) ==
  {i \in 1..Len(s) : s[i] \notin Whitespace /\ (i = 1 \/ s[i - 1] \in Whitespace)}

\* out is name trimmed, with each run of whitespace collapsed to one space,
\* and title-cased
IsNormalizedFrom(name, out) ==
  /\ Letters(out) = Letters(name)
  /\ Cardinality(WordStarts(out)) = Cardinality(WordStarts(name))
  /\ out # <<>> => (out[1] # " " /\ out[Len(out)] # " ")
  /\ \A i \in 1..Len(out) :
       /\ out[i] \in Whitespace => (out[i] = " " /\ i < Len(out) /\ out[i + 1] \notin Whitespace)
       /\ IsCased(out[i]) => (IsUpper(out[i]) <=> i \in WordStarts(out))

\* C23: the name of an accepted Record is the input name trimmed, with every
\* run of internal whitespace collapsed to one space, and title-cased: the
\* input "  michael   chen " gives "Michael Chen", and normalizing an already
\* normalized name changes nothing.
C23_NameNormalized ==
  (validator.pc = "returned" /\ validator.data.ok) =>
    LET employees == CandidatesOf(validator.payload.v.employees) IN
    \A i \in 1..Len(employees) :
      LET name == employees[i].v.name.v
          out == validator.result.v.employees.v[i].v.name.v
      IN /\ IsNormalizedFrom(name, out)
         /\ employees[i].v.name = SpacedName => out = MichaelChen.v
         /\ normalize_name(out) = out

\* the name of the specification's scenario, accepted
C23_Witness ==
  /\ validator.pc = "returned" /\ validator.data.ok
  /\ Len(CandidatesOf(validator.payload.v.employees)) = 1
  /\ validator.payload.v.employees.v[1].v.name = SpacedName
  /\ validator.result.v.employees.v[1].v.name = MichaelChen

\* the candidate with its age left out
WithoutAge(c) == JObject([c.v EXCEPT !.age = JAbsent])

\* C24: age validation is exactly the inclusive range [16, 80]: a Record
\* with age 16 or 80 (or null/absent age) is accepted when its other fields
\* are valid, and a Record with age 15 or 81 is rejected even when every
\* other field is valid.
C24_AgeRange ==
  (validator.pc = "returned" /\ Len(CandidatesOf(validator.payload.v.employees)) = 1
     /\ CandidatesOf(validator.payload.v.rejected) = <<>>) =>
    LET c == validator.payload.v.employees.v[1]
        age == c.v.age
    IN Employee(WithoutAge(c)).ok =>
         /\ Missing(age) => (validator.data.ok /\ validator.data.v.employees[1].age = None)
         /\ age.t = "int" =>
              /\ validator.data.ok <=> (age.v >= 16 /\ age.v <= 80)
              /\ validator.data.ok => validator.data.v.employees[1].age = age
              /\ ~validator.data.ok =>
                   (validator.result = None
                      /\ \A e \in validator.data.errors : e[3] = "age")

\* the upper boundary age, accepted and kept
C24_Witness ==
  /\ validator.pc = "returned" /\ validator.data.ok
  /\ Len(CandidatesOf(validator.payload.v.employees)) = 1
  /\ validator.payload.v.employees.v[1].v.age = JInt(80)
  /\ validator.result.v.employees.v[1].v.age = JInt(80)

\* the candidate with a canonical department in the place of its own
WithDepartment(c) == JObject([c.v EXCEPT !.department = JStr(<<"A", "I", "/", "M", "L">>)])

\* C25: a Record whose department is not exactly (case-sensitively) one of
\* the four canonical strings "Artificial Intelligence", "AI/ML", "Machine
\* Learning", "Data Science" fails validation even if every other field is
\* valid, and a missing department also fails.
C25_DepartmentClosedSet ==
  (validator.pc = "returned" /\ Len(CandidatesOf(validator.payload.v.employees)) = 1
     /\ CandidatesOf(validator.payload.v.rejected) = <<>>) =>
    LET c == validator.payload.v.employees.v[1]
        department == c.v.department
        canonical == department.t = "str" /\ department.v \in Department
    IN /\ Cardinality(Department) = 4
       /\ ~canonical => (~validator.data.ok /\ validator.result = None)
       /\ (canonical /\ Employee(WithDepartment(c)).ok) =>
            (validator.data.ok /\ validator.data.v.employees[1].department = department)

\* a record valid in every other field, with "ai/ml" for "AI/ML", refused
C25_Witness ==
  /\ validator.pc = "returned" /\ ~validator.data.ok
  /\ Len(CandidatesOf(validator.payload.v.employees)) = 1
  /\ validator.payload.v.employees.v[1].v.department = JStr(<<"a", "i", "/", "m", "l">>)
  /\ Employee(WithDepartment(validator.payload.v.employees.v[1])).ok
  /\ validator.data.errors = {<<"employees", 1, "department", "literal_error">>}

\* C26: the raw input text and the maximum attempt budget of a run are
\* never changed by any step (extract, validate, correct, attempt
\* increment): in every reachable state they equal the values given at run
\* start; validate also leaves the last raw generator text and the attempt
\* counter unchanged.
C26_RunInputsFixed ==
  /\ [][raw_text' = raw_text /\ max_attempts' = max_attempts]_vars
  /\ [](\A i \in 1..Len(calls) :
          calls[i].node = "extract" => (i = 1 /\ calls[i].payload.raw_text = raw_text))
  /\ [][(pc = "validate") =>
          (last_json_text' = last_json_text /\ attempt' = attempt)]_vars

\* a run that went through every kind of step, its inputs as at the start
C26_Witness ==
  /\ pc = "END" /\ attempt = 3 /\ max_attempts = 3 /\ raw_text = "raw_b"
  /\ Len(calls) = 3 /\ calls[1].payload.raw_text = "raw_b"
  /\ last_json_text = Text("good") /\ result # None

(***************************************************************************)
(* C27: execute_query with eq filters on columns of the frame keeps        *)
(* exactly the rows whose value in each such column equals the filter      *)
(* value (a null filter value: the rows with no value there), in their     *)
(* original order, and returns of them only the selected columns that the  *)
(* frame has, in the order of the selection (all columns when nothing is   *)
(* selected); a filter on a column the frame lacks is skipped: it removes  *)
(* no row and is not evaluated, whatever its operator and value.  The      *)
(* distinct and limit settings then apply to these rows.                   *)
(***************************************************************************)
EqOrSkipped(spec, df) ==
  \A k \in 1..Len(spec.filters) :
    HasColumn(df, spec.filters[k].column) => spec.filters[k].op = "eq"
SameValue(a, b) == IF IsNumber(a) /\ IsNumber(b) THEN Tenths(a) = Tenths(b) ELSE a = b
EqualsFilters(spec, df, r) ==
  \A k \in 1..Len(spec.filters) :
    HasColumn(df, spec.filters[k].column) =>
      LET cell == r.cells[ColumnAt(df, spec.filters[k].column)]
          val == spec.filters[k].value
      IN  IF val = None THEN cell = JNaN ELSE SameValue(cell, val)
SelectedColumns(spec, df) ==
  IF spec.select = <<>> THEN df.columns
  ELSE SelectSeq(spec.select, LAMBDA c : \E k \in 1..Len(df.columns) : df.columns[k] = c)
RowsShown(spec, df) ==
  LET kept == SelectSeq(df.rows, LAMBDA r : EqualsFilters(spec, df, r))
      columns == SelectedColumns(spec, df)
  IN  [i \in 1..Len(kept) |->
         [index |-> kept[i].index,
          cells |-> [k \in 1..Len(columns) |-> kept[i].cells[ColumnAt(df, columns[k])]]]]

C28_LogCounts ==
  /\ CountStep(log, "validate") <= attempt
  /\ CountStep(log, "correct") <= attempt
  /\ pc = "END" =>
       /\ CountStep(log, "extract") = 1
       /\ CountStep(log, "validate") = attempt
       /\ CountStep(log, "correct") = attempt - 1
       /\ attempt <= Max(1, max_attempts)
       /\ max_attempts <= 1 => (attempt = 1 /\ Len(log) = 2 /\ Len(calls) = 1)

\* a run with max_attempts = 0 that ended after one failed validation
C28_Witness ==
  /\ pc = "END" /\ max_attempts = 0 /\ attempt = 1 /\ result = None
  /\ Len(log) = 2 /\ log[1].step = "extract" /\ log[2].status = "fail"

\* C29: the audit log of a run of run_agent is extract(1), validate(1), then
\* pairs correct(k), validate(k + 1) for k = 1, 2, ...: each correct entry
\* carries the attempt number of the failed validation just before it, the
\* counter being incremented only after the correct entry is logged; each
\* validate entry before a correct has status fail; attempt numbers never
\* decrease; at the terminal state the last entry is a validate.
LogShape(entries) ==
  \A i \in 1..Len(entries) :
    /\ i = 1 => (entries[i].step = "extract" /\ entries[i].attempt = 1)
    /\ (i > 1 /\ i % 2 = 0) => (entries[i].step = "validate" /\ entries[i].attempt = i \div 2)
    /\ (i > 1 /\ i % 2 = 1) =>
         /\ entries[i].step = "correct"
         /\ entries[i - 1].step = "validate" /\ entries[i - 1].status = "fail"
         /\ entries[i].attempt = entries[i - 1].attempt
    /\ i > 1 => entries[i - 1].attempt <= entries[i].attempt

C29_LogShape ==
  /\ [](LogShape(log))
  /\ [](pc = "END" => (log # <<>> /\ log[Len(log)].step = "validate"))
  /\ [][(pc = "correct" /\ log' # log) =>
          (log'[Len(log')].attempt = attempt /\ attempt' = attempt
             /\ pc' = "inc_attempt")]_vars
  /\ [][(pc = "inc_attempt" /\ pc' # pc) =>
          (log' = log /\ log[Len(log)].step = "correct"
             /\ attempt' = log[Len(log)].attempt + 1)]_vars

\* extract(1), validate(1) fail, correct(1), validate(2) fail, correct(2),
\* validate(3) pass
C29_Witness ==
  /\ pc = "END" /\ Len(log) = 6 /\ result # None
  /\ [i \in 1..6 |-> log[i].step] =
       <<"extract", "validate", "correct", "validate", "correct", "validate">>
  /\ [i \in 1..6 |-> log[i].attempt] = <<1, 1, 1, 2, 2, 3>>
  /\ log[2].status = "fail" /\ log[4].status = "fail" /\ log[6].status = "pass"

\* C30: in every state of a run of run_agent a non-null result is the
\* validated form of the current last raw generator text: once result is
\* non-null no extract or correct step runs and last_json_text is not
\* assigned again, so the final result and the final last_json_text belong
\* to the same attempt.
C30_ResultOfLastText ==
  /\ [](result # None =>
          /\ TextIsValid(last_json_text)
          /\ result = validated_result(model_validate_json(last_json_text))
          /\ log[Len(log)] = PassEntry(attempt)
          /\ last_json_text = StrippedOutput(calls[Len(calls)].output)
          /\ Len(calls) = attempt)
  /\ [][result # None =>
          (last_json_text' = last_json_text /\ calls' = calls /\ result' = result)]_vars
  /\ [](pc \in {"extract", "correct", "inc_attempt"} => result = None)

\* a result of the third attempt: two invalid texts, then the valid one
C30_Witness ==
  /\ pc = "END" /\ result # None /\ attempt = 3 /\ Len(calls) = 3
  /\ calls[1].output = Text("bad") /\ calls[2].output = Text("not_json")
  /\ calls[3].output = Text("good") /\ last_json_text = Text("good")
  /\ result = validated_result(model_validate_json(Text("good")))

\* the validate entries of a log, as attempt number and status
ValidateEntries(entries) ==
  LET validates == SelectSeq(entries, LAMBDA e : e.step = "validate")
  IN  [i \in 1..Len(validates) |-> <<validates[i].attempt, validates[i].status>>]

\* the generator of the run answered with the outputs of the sequence the
\* harness replays, and both runs are over
SameOutputs ==
  /\ pc = "END" /\ offline.pc = "returned"
  /\ offline.max_attempts = max_attempts
  /\ \A i \in 1..Len(calls) :
       i <= Len(offline.candidates) /\ calls[i].output = offline.candidates[i]

\* the log of the harness is the log of the controller with each later
\* generation entry relabelled extract and given the new attempt number
LogsDifferInLabelsOnly(controller, harness) ==
  /\ Len(controller) = Len(harness)
  /\ \A i \in 1..Len(controller) :
       IF controller[i].step = "validate"
       THEN /\ harness[i].step = "validate"
            /\ harness[i].attempt = controller[i].attempt
            /\ harness[i].status = controller[i].status
       ELSE /\ harness[i].step = "extract"
            /\ harness[i].output = controller[i].output
            /\ harness[i].attempt =
                 IF controller[i].step = "correct" THEN controller[i].attempt + 1
                 ELSE controller[i].attempt

\* C31: for every max_attempts >= 1 and every sequence of at least
\* max_attempts generator outputs, run_offline_agent replaying the sequence
\* and run_agent fed the same outputs end with the same result, the same
\* last raw text and the same validate entries (attempt number and status),
\* and their logs differ only in the label and the attempt number of the
\* later generation entries; for max_attempts <= 0 they perform different
\* numbers of validations.
C31_HarnessAgrees ==
  SameOutputs =>
    /\ max_attempts >= 1 =>
         /\ offline.returned.result = result
         /\ offline.returned.last_json_text = last_json_text
         /\ ValidateEntries(offline.returned.log) = ValidateEntries(log)
         /\ LogsDifferInLabelsOnly(log, offline.returned.log)
    /\ max_attempts <= 0 =>
         CountStep(offline.returned.log, "validate") # CountStep(log, "validate")

====
